---- MODULE Spec2Model ----
(***************************************************************************)
(* Bake orchestration of PieCrust2: piecrust/baking/baker.py.              *)
(* Baker.bake() is modelled step by step (one action per block of the      *)
(* method between two blocking calls), the worker pool's callbacks         *)
(* (_handleWorkerResult, _handleWorkerError) are actions that fire for any *)
(* job in flight, and the records files on disk persist across bakes.      *)
(***************************************************************************)
EXTENDS Integers, Sequences, FiniteSets, TLC

\* ---------------------------------------------------------------- bounds
MaxChain == 2       \* a job chain declares at most this many follow-up jobs
MaxBakes == 2       \* bake() invocations in one behaviour
MaxTime  == 2       \* largest value of the wall clock

\* ------------------------------------------------------------- constants
REALM_USER  == "user"
REALM_THEME == "theme"
\* line 108 with the realms exchanged
realm_list_ThemeFirst == <<REALM_THEME, REALM_USER>>

realm_list  == <<REALM_USER, REALM_THEME>>

NumBackups == 9     \* suffixes .1 .. .9 of the rotated records files
None   == "None"

CacheNames  == {"app", "baker", "pages", "renders"}
ExceptNames == {"app", "baker"}

\* app.sources, in configuration order, and what each source declares
AppSources  == <<"pages", "assets", "theme", "tags">>
SourceNames == {"pages", "assets", "theme", "tags"}

SourceRealm(s) == IF s = "theme" THEN REALM_THEME ELSE REALM_USER

get_pipeline_name_for_source(s) ==
    IF s = "assets" THEN "asset"
    ELSE IF s = "tags" THEN "taxonomy"
    ELSE "page"

\* the taxonomy pipeline runs once the pages are baked
PASS_NUM(s) == IF s = "tags" THEN 1 ELSE 0

_pipeline_classes == {"page", "asset", "taxonomy"}

\* the site's content: a full site (one item in every source) and a tiny one
\* whose only page "q" never comes back as a failed entry (its job can still
\* crash in the worker)
ItemSpecs == {"p1", "x", "q"}
FullSite == [s \in SourceNames |->
                IF s = "assets" THEN {"x"}
                ELSE IF s = "tags" THEN {}
                ELSE {"p1"}]
TinySite == [s \in SourceNames |-> IF s = "pages" THEN {"q"} ELSE {}]

CanReportErrors(item) == item # "q"

AllowedChoices == {{"page"}, {}}

\* ------------------------------------------------------------ variables
VARIABLES
    now,              \* time.time()
    templates,        \* modification times of the files under templates_dirs
    cache_valid,      \* app.config['__cache_valid']
    files,            \* records files: files[0] primary, files[k] backup .k
    caches,           \* cache region -> it holds cached content
    content,          \* source name -> item specs the source yields
    force,            \* Baker.force
    allowed_pipelines,\* Baker.allowed_pipelines
    is_baking,        \* app.config['baker/is_baking']
    pc,               \* position of bake()
    bakes,            \* number of bake() invocations so far
    start_force,      \* Baker.force when the running bake() was entered
    loaded,           \* load_records() was called by the running bake()
    previous_records, \* local previous_records of bake()
    current_records,  \* local current_records of bake()
    is_cache_valid,   \* local is_cache_valid of bake()
    record_histories, \* previous generation paired by MultiRecordHistory
    pipelines,        \* sources the pipeline manager created a pipeline for
    pool,             \* the worker pool and the force flag of its context
    groups,           \* realm groups (pplists) not yet baked
    pplist,           \* pplist of the running _bakeRealm
    idx,              \* loop index inside _bakeRealm
    cur_pass,         \* pool.userdata.cur_pass
    next_pass_jobs,   \* pool.userdata.next_pass_jobs (ordered dict)
    local_jobs,       \* local next_pass_jobs of _bakeRealm's loop
    had_any_job,      \* local had_any_job of _bakeRealm's loop
    inflight,         \* jobs queued to the pool, callback not yet delivered
    result,           \* what the last bake() gave its caller
    lookup_failed,    \* a callback hit a missing dict key or entry
    \* history variables, read by the properties only
    queue_log,        \* every queueJobs of the bake: job, cur_pass, group
    declared,         \* follow-up jobs the results of this bake declared
    chain,            \* <<source, item>> -> follow-ups its chain declared
    followup_passes,  \* follow-up passes the running _bakeRealm waited for
    failures,         \* failed results / error callbacks in this bake
    group_no,         \* ordinal of the running realm group in this bake
    calls,            \* pipeline manager / pool / disk calls of this bake
    saved,            \* generations saved so far, the latest first
    outputs,          \* artifacts in the output directory: path and owner
    error_log,        \* what _logErrors wrote during this bake
    outcomes,         \* what came back for each job of this bake
    observe           \* the outcomes are kept (history for one property)

envvars  == <<now, templates, cache_valid, files, caches, content>>
bakerdata == <<force, allowed_pipelines, is_baking, bakes, start_force,
               loaded, previous_records, current_records, is_cache_valid,
               record_histories, pipelines, pool, result>>
bakervars == <<pc, bakerdata>>
realmvars == <<groups, pplist, idx, cur_pass, next_pass_jobs, local_jobs,
               had_any_job, inflight, lookup_failed>>
histvars == <<queue_log, declared, chain, followup_passes, failures,
              group_no>>
logvars == <<calls, saved, outputs, error_log, outcomes, observe>>
vars == <<envvars, bakervars, realmvars, histvars, logvars>>

\* ------------------------------------------------------- small utilities
Max(S) == CHOOSE m \in S : \A x \in S : x <= m

Range(f) == {f[i] : i \in DOMAIN f}

RemoveAt(s, i) == SubSeq(s, 1, i - 1) \o SubSeq(s, i + 1, Len(s))

\* an insertion-ordered Python dict: a sequence of [key, val] pairs
EmptyDict == <<>>

DictHas(d, k) == \E i \in 1..Len(d) : d[i].key = k

DictGet(d, k) == d[CHOOSE i \in 1..Len(d) : d[i].key = k].val

DictSet(d, k, v) ==
    IF DictHas(d, k)
    THEN [i \in 1..Len(d) |-> IF d[i].key = k THEN [key |-> k, val |-> v]
                                                ELSE d[i]]
    ELSE Append(d, [key |-> k, val |-> v])

\* ---------------------------------------------------------- record store
Record == [success |-> TRUE, entries |-> <<>>]

MultiRecord ==
    [records |-> <<>>, success |-> TRUE, bake_time |-> 0,
     incremental_count |-> 0, invalidated |-> FALSE]

InvalidatedRecord == [MultiRecord EXCEPT !.invalidated = TRUE]

\* load_records(path): an unreadable file or one of another version gives an
\* invalidated generation
NoFile == [exists |-> FALSE, gen |-> MultiRecord, corrupt |-> FALSE]

StoredFile(mr) == [exists |-> TRUE, gen |-> mr, corrupt |-> FALSE]

\* what bake() returned or raised, the pool and the history before they exist
NoResult == [kind |-> "none", records |-> MultiRecord]

NoPool == [created |-> FALSE, force |-> FALSE]

NoHistory == [created |-> FALSE, previous |-> MultiRecord]

load_records(f) == IF f.corrupt THEN InvalidatedRecord ELSE f.gen

EntrySuccess(e) == e.errors = <<>>

getRecord(mr, name) ==
    IF DictHas(mr.records, name) THEN mr
    ELSE [mr EXCEPT !.records = DictSet(@, name, Record)]

addEntry(rec, e) == [rec EXCEPT !.entries = Append(@, e)]

HasEntry(rec, spec) == \E i \in 1..Len(rec.entries) :
                            rec.entries[i].item_spec = spec

EntryIndex(rec, spec) == CHOOSE i \in 1..Len(rec.entries) :
                            rec.entries[i].item_spec = spec

getEntry(rec, spec) == rec.entries[EntryIndex(rec, spec)]

AppendErrors(rec, spec, errs) ==
    [rec EXCEPT !.entries[EntryIndex(rec, spec)].errors = @ \o errs]

\* the pipeline's merge of a pass >= 1 result into the existing entry
mergeRecordEntry(rec, entry) == AppendErrors(rec, entry.item_spec, entry.errors)

clearCaches(cs, except_names) ==
    [c \in CacheNames |-> IF c \in except_names THEN cs[c] ELSE FALSE]

\* ------------------------------------------------------------------ jobs
Job(s, item, p) ==
    [source_name |-> s, record_name |-> s, item |-> item, pass |-> p]

\* pp.createJobs(): one pass-0 job per content item of the source
createJobs(s) ==
    LET Build[S \in SUBSET content[s]] ==
            IF S = {} THEN <<>>
            ELSE LET it == CHOOSE x \in S : TRUE
                 IN  <<Job(s, it, 0)>> \o Build[S \ {it}]
    IN  Build[content[s]]

\* pool.queueJobs(jobs)
queueJobs(q, jobs) == q \o jobs

\* pool.wait() returns once every queued job has had its callback
wait_returns == inflight = <<>>

LogQueue(jobs) ==
    queue_log \o [i \in 1..Len(jobs) |->
                    [job |-> jobs[i], at |-> cur_pass, group |-> group_no]]

\* ------------------------------------------------------------------ Init
\* the records files a directory can hold: the primary (0), the backups
\* .1 .. .9 and, were one ever written, a backup .10
FileIndexes == 0..(NumBackups + 1)

NoFiles == [k \in FileIndexes |-> NoFile]

ZeroChain == [k \in SourceNames \X ItemSpecs |-> 0]

TemplateFiles == {"default.html"}

NoTemplates == [f \in {} |-> 0]

\* state right after Baker.__init__, no bake running
Fresh ==
    /\ now = 1
    /\ is_baking = FALSE
    /\ pc = "idle"
    /\ bakes = 0
    /\ start_force = FALSE
    /\ loaded = FALSE
    /\ previous_records = MultiRecord
    /\ current_records = MultiRecord
    /\ is_cache_valid = FALSE
    /\ record_histories = NoHistory
    /\ pipelines = {}
    /\ pool = NoPool
    /\ groups = <<>>
    /\ pplist = <<>>
    /\ idx = 1
    /\ cur_pass = 0
    /\ next_pass_jobs = EmptyDict
    /\ local_jobs = EmptyDict
    /\ had_any_job = FALSE
    /\ inflight = <<>>
    /\ result = NoResult
    /\ lookup_failed = FALSE
    /\ queue_log = <<>>
    /\ declared = {}
    /\ chain = ZeroChain
    /\ followup_passes = 0
    /\ failures = 0
    /\ group_no = 0
    /\ calls = <<>>
    /\ saved = <<>>
    /\ error_log = {}
    /\ outcomes = {}

\* what two earlier runs of the bake command over the tiny site left: the
\* generation of a full bake (now backup .1) and that of the incremental bake
\* that followed it (the primary records file), both saved at time 1
PriorRecords ==
    [key |-> "pages",
     val |-> [success |-> TRUE,
              entries |-> <<[item_spec |-> "q", errors |-> <<>>,
                             overridden |-> FALSE]>>]]

PriorGeneration(count) ==
    [MultiRecord EXCEPT !.records = <<PriorRecords>>, !.bake_time = 1,
                        !.incremental_count = count]

PriorFiles == [NoFiles EXCEPT ![0] = StoredFile(PriorGeneration(1)),
                              ![1] = StoredFile(PriorGeneration(0))]

\* the artifact those bakes wrote
PriorOutputs == {[path |-> "q", source |-> "pages"]}

\* Baker.__init__ (lines 28-37) over a site with a single content item, the
\* output directory new or baked before
Init ==
    /\ Fresh
    /\ observe = FALSE
    /\ content = TinySite
    /\ files \in {NoFiles, PriorFiles}
    /\ caches = [c \in CacheNames |-> c = "app" \/ files = PriorFiles]
    /\ outputs = IF files = PriorFiles THEN PriorOutputs ELSE {}
    /\ templates \in {NoTemplates, [f \in TemplateFiles |-> 0]}
    /\ cache_valid \in BOOLEAN
    /\ force \in BOOLEAN
    /\ allowed_pipelines \in AllowedChoices

\* Baker.__init__ over the full site, force = False, the page and the asset
\* pipelines allowed, no earlier bake
PassInit ==
    /\ Fresh
    /\ observe = FALSE
    /\ content = FullSite
    /\ files = NoFiles
    /\ caches = [c \in CacheNames |-> c = "app"]
    /\ outputs = {}
    /\ templates = [f \in TemplateFiles |-> 0]
    /\ cache_valid = TRUE
    /\ force = FALSE
    /\ allowed_pipelines = {"page", "asset"}

\* ----------------------------------------------------------- environment
\* the bake command is run again: Baker(appfactory, app, out_dir, force,
\* allowed_pipelines) over a newly loaded app, the same pipelines allowed
NewBaker ==
    /\ pc = "idle"
    /\ bakes < MaxBakes
    /\ \E f \in BOOLEAN, cv \in BOOLEAN :
        /\ force' = f
        /\ cache_valid' = cv
        /\ f # force \/ cv # cache_valid
    /\ UNCHANGED <<now, templates, files, caches, content>>
    /\ UNCHANGED <<allowed_pipelines, is_baking, pc, bakes, start_force,
                   loaded,
                   previous_records, current_records, is_cache_valid,
                   record_histories, pipelines, pool, result>>
    /\ UNCHANGED <<realmvars, histvars>>
    /\ UNCHANGED logvars

Tick ==
    /\ pc = "idle"
    /\ bakes < MaxBakes
    /\ now < MaxTime
    /\ now' = now + 1
    /\ UNCHANGED <<templates, cache_valid, files, caches, content>>
    /\ UNCHANGED <<bakervars, realmvars, histvars>>
    /\ UNCHANGED logvars

\* a template file is written: its modification time becomes the clock's
TouchTemplate ==
    /\ pc = "idle"
    /\ bakes < MaxBakes
    /\ \E f \in TemplateFiles :
        /\ IF f \in DOMAIN templates THEN templates[f] # now ELSE TRUE
        /\ templates' = [g \in DOMAIN templates \cup {f} |->
                            IF g = f THEN now ELSE templates[g]]
    /\ UNCHANGED <<now, cache_valid, files, caches, content>>
    /\ UNCHANGED <<bakervars, realmvars, histvars>>
    /\ UNCHANGED logvars

\* the primary records file becomes unreadable or of another version
CorruptRecords ==
    /\ pc = "idle"
    /\ bakes < MaxBakes
    /\ files[0].exists
    /\ ~files[0].corrupt
    /\ files' = [files EXCEPT ![0].corrupt = TRUE]
    /\ UNCHANGED <<now, templates, cache_valid, caches, content>>
    /\ UNCHANGED <<bakervars, realmvars, histvars>>
    /\ UNCHANGED logvars

\* ------------------------------------------------------------ Baker.bake
\* line 55 without "not self.force"
ShouldLoad_IgnoreForce == files[0].exists

\* line 55: the previous records are loaded
ShouldLoad == ~force /\ files[0].exists

\* line 45 left out: the flag stays as it was
BakeMode_NotEntered == is_baking

\* line 45: self.app.config.set('baker/is_baking', True)
BakeMode == TRUE

\* lines 39-61: enter bake mode, load or create the bake records
StartBake ==
    /\ pc = "idle"
    /\ bakes < MaxBakes
    /\ bakes' = bakes + 1
    /\ is_baking' = BakeMode
    /\ start_force' = force
    /\ loaded' = ShouldLoad
    /\ previous_records' = IF ShouldLoad
                           THEN load_records(files[0])
                           ELSE MultiRecord
    /\ current_records' = MultiRecord
    /\ result' = NoResult
    /\ pc' = "validity"
    /\ UNCHANGED <<force, allowed_pipelines, is_cache_valid,
                   record_histories, pipelines, pool>>
    /\ UNCHANGED <<envvars, realmvars, histvars>>
    /\ UNCHANGED logvars

\* lines 191-196: the latest modification time under templates_dirs
max_time == Max({0} \cup Range(templates))

\* Reason with ">" for the ">=" of line 197
Reason_StrictlyLater(prev) ==
    IF force THEN "ordered to"
    ELSE IF ~cache_valid THEN "not valid anymore"
    ELSE IF prev.invalidated THEN "need bake records regeneration"
    ELSE IF max_time > prev.bake_time THEN "templates modified"
    ELSE None

\* lines 177-198: why the cache has to be cleaned, None when it is valid
Reason(prev) ==
    IF force THEN "ordered to"
    ELSE IF ~cache_valid THEN "not valid anymore"
    ELSE IF prev.invalidated THEN "need bake records regeneration"
    ELSE IF max_time >= prev.bake_time THEN "templates modified"
    ELSE None

\* lines 67-68 left out
PreviousAfterValidity_Kept(valid, prev) == prev

\* lines 67-68: the previous records bake() goes on with
PreviousAfterValidity(valid, prev) == IF ~valid THEN MultiRecord ELSE prev

\* line 203 setting self.force = False
ForceAfterClean_Cleared == FALSE

\* line 203 left out: self.force stays what the caller gave
ForceAfterClean_Kept == force

\* lines 200-204: self.force once the cache had to be cleaned
ForceAfterClean == TRUE

\* lines 65-68 and 174-213: _handleCacheValidity and its use by bake()
HandleCacheValidity ==
    /\ pc = "validity"
    /\ LET reason == Reason(previous_records) IN
        IF reason # None
        THEN /\ caches' = clearCaches(caches, ExceptNames)
             /\ force' = ForceAfterClean
             /\ current_records' =
                    [current_records EXCEPT !.incremental_count = 0]
             /\ is_cache_valid' = FALSE
             /\ previous_records' =
                    PreviousAfterValidity(FALSE, previous_records)
        ELSE /\ current_records' =
                    [current_records EXCEPT !.incremental_count = @ + 1]
             /\ is_cache_valid' = TRUE
             /\ previous_records' =
                    PreviousAfterValidity(TRUE, previous_records)
             /\ UNCHANGED <<caches, force>>
    /\ pc' = "setup"
    /\ UNCHANGED <<now, templates, cache_valid, files, content>>
    /\ UNCHANGED <<allowed_pipelines, is_baking, bakes, start_force, loaded,
                   record_histories, pipelines, pool, result>>
    /\ UNCHANGED <<realmvars, histvars>>
    /\ UNCHANGED logvars

\* the check of line 100 left out
has_any_pp_Unchecked(pps) == TRUE

\* lines 85-100: has_any_pp after the loop over app.sources
has_any_pp(pps) == pps # {}

\* lines 70-103: record history, pipelines of the allowed sources; raises
\* when no source has an allowed pipeline
PipelineSetup ==
    /\ pc = "setup"
    /\ LET pps == {s \in SourceNames :
                      get_pipeline_name_for_source(s) \in allowed_pipelines}
       IN  IF ~has_any_pp(pps)
           THEN \* line 103 raises: the frame of bake() and its locals go
                /\ pc' = "idle"
                /\ result' = [kind |-> "raised", records |-> MultiRecord]
                /\ record_histories' = NoHistory
                /\ pipelines' = {}
                /\ start_force' = FALSE
                /\ loaded' = FALSE
                /\ previous_records' = MultiRecord
                /\ current_records' = MultiRecord
                /\ is_cache_valid' = FALSE
           ELSE /\ pc' = "pool"
                /\ record_histories' =
                       [created |-> TRUE, previous |-> previous_records]
                /\ pipelines' = pps
                /\ UNCHANGED <<result, start_force, loaded, previous_records,
                               current_records, is_cache_valid>>
    /\ UNCHANGED <<force, allowed_pipelines, is_baking, bakes, pool>>
    /\ UNCHANGED <<envvars, realmvars, histvars>>
    /\ UNCHANGED logvars

RECURSIVE SortedSeq(_)
SortedSeq(S) ==
    IF S = {} THEN <<>>
    ELSE LET m == CHOOSE x \in S : \A y \in S : x <= y
         IN  <<m>> \o SortedSeq(S \ {m})

\* the loops of lines 121-127 exchanged: realms outside, passes inside
RealmGroups_RealmMajor(pps) ==
    LET passes == SortedSeq({PASS_NUM(s) : s \in pps})
        group(p, r) == SelectSeq(AppSources,
                          LAMBDA s : /\ s \in pps
                                     /\ PASS_NUM(s) = p
                                     /\ SourceRealm(s) = r)
        all == [k \in 1..(Len(passes) * Len(realm_list)) |->
                  group(passes[((k - 1) % Len(passes)) + 1],
                        realm_list[((k - 1) \div Len(passes)) + 1])]
    IN  SelectSeq(all, LAMBDA g : g # <<>>)

\* lines 113-127: the pplists in the order bake() hands them to _bakeRealm
RealmGroups(pps) ==
    LET passes == SortedSeq({PASS_NUM(s) : s \in pps})
        group(p, r) == SelectSeq(AppSources,
                          LAMBDA s : /\ s \in pps
                                     /\ PASS_NUM(s) = p
                                     /\ SourceRealm(s) = r)
        all == [k \in 1..(Len(passes) * Len(realm_list)) |->
                  group(passes[((k - 1) \div Len(realm_list)) + 1],
                        realm_list[((k - 1) % Len(realm_list)) + 1])]
    IN  SelectSeq(all, LAMBDA g : g # <<>>)

\* lines 105-119 and 266-287: the worker pool and the realm groups
CreatePool ==
    /\ pc = "pool"
    /\ pool' = [created |-> TRUE, force |-> force]
    /\ cur_pass' = 0
    /\ next_pass_jobs' = EmptyDict
    /\ groups' = RealmGroups(pipelines)
    /\ pc' = "realms"
    /\ UNCHANGED <<force, allowed_pipelines, is_baking, bakes, start_force,
                   loaded, previous_records, current_records,
                   is_cache_valid, record_histories, pipelines, result>>
    /\ UNCHANGED <<pplist, idx, local_jobs, had_any_job, inflight,
                   lookup_failed>>
    /\ UNCHANGED <<envvars, histvars>>
    /\ UNCHANGED logvars

\* ------------------------------------------------------ Baker._bakeRealm
\* line 218 left out: cur_pass is what the group before left
PassAtRealmStart_Kept == cur_pass

\* line 218: pool.userdata.cur_pass = 0
PassAtRealmStart == 0

\* lines 121-127 and 218-220: bake() enters _bakeRealm for the next group
BeginRealm ==
    /\ pc = "realms"
    /\ groups # <<>>
    /\ pplist' = Head(groups)
    /\ groups' = Tail(groups)
    /\ cur_pass' = PassAtRealmStart
    /\ next_pass_jobs' = EmptyDict
    /\ idx' = 1
    /\ pc' = "pass0"
    /\ followup_passes' = 0
    /\ group_no' = group_no + 1
    /\ UNCHANGED <<local_jobs, had_any_job, inflight, lookup_failed>>
    /\ UNCHANGED <<queue_log, declared, chain, failures>>
    /\ UNCHANGED <<envvars, bakerdata>>
    /\ UNCHANGED logvars

\* line 229 left out: the source gets no list before its jobs are queued
InitList_Forgotten(d, src) == d

\* line 229: next_pass_jobs[src.name] = []
InitList(d, src) == DictSet(d, src, <<>>)

\* lines 221-231: one iteration of the pass-0 loop over pplist
QueuePass0 ==
    /\ pc = "pass0"
    /\ idx <= Len(pplist)
    /\ LET src  == pplist[idx]
           jobs == createJobs(src)
       IN  /\ next_pass_jobs' = InitList(next_pass_jobs, src)
           /\ inflight' = queueJobs(inflight, jobs)
           /\ queue_log' = LogQueue(jobs)
    /\ idx' = idx + 1
    /\ UNCHANGED <<groups, pplist, cur_pass, local_jobs, had_any_job,
                   lookup_failed>>
    /\ UNCHANGED <<declared, chain, followup_passes, failures, group_no>>
    /\ UNCHANGED <<envvars, bakervars>>
    /\ UNCHANGED logvars

\* lines 232-236: the barrier after pass 0
WaitPass0 ==
    /\ pc = "pass0"
    /\ idx > Len(pplist)
    /\ wait_returns
    /\ cur_pass' = 1
    /\ pc' = "followup"
    /\ UNCHANGED bakerdata
    /\ UNCHANGED <<groups, pplist, idx, next_pass_jobs, local_jobs,
                   had_any_job, inflight, lookup_failed>>
    /\ UNCHANGED <<envvars, histvars>>
    /\ UNCHANGED logvars

\* lines 237-244: top of the follow-up loop
SwapNextPassJobs ==
    /\ pc = "followup"
    /\ had_any_job' = FALSE
    /\ local_jobs' = next_pass_jobs
    /\ next_pass_jobs' = EmptyDict
    /\ idx' = 1
    /\ pc' = "queue"
    /\ UNCHANGED bakerdata
    /\ UNCHANGED <<groups, pplist, cur_pass, inflight, lookup_failed>>
    /\ UNCHANGED <<envvars, histvars>>
    /\ UNCHANGED logvars

\* line 251 left out: the source gets no list for the next pass
ResetList_Forgotten(d, sn) == d

\* line 251: pool.userdata.next_pass_jobs[sn] = []
ResetList(d, sn) == DictSet(d, sn, <<>>)

\* line 253 left out: had_any_job stays as it was set at line 238
HadAnyJobAfterQueue_Unset == FALSE

\* line 253: had_any_job once a source had jobs to queue
HadAnyJobAfterQueue == TRUE

\* lines 246-253: one iteration over the items of the local next_pass_jobs
QueueFollowUp ==
    /\ pc = "queue"
    /\ idx <= Len(local_jobs)
    /\ LET sn   == local_jobs[idx].key
           jobs == local_jobs[idx].val
       IN  IF jobs # <<>>
           THEN /\ next_pass_jobs' = ResetList(next_pass_jobs, sn)
                /\ inflight' = queueJobs(inflight, jobs)
                /\ queue_log' = LogQueue(jobs)
                /\ had_any_job' = HadAnyJobAfterQueue
           ELSE UNCHANGED <<next_pass_jobs, inflight, queue_log,
                            had_any_job>>
    /\ idx' = idx + 1
    /\ UNCHANGED <<groups, pplist, cur_pass, local_jobs, lookup_failed>>
    /\ UNCHANGED <<declared, chain, followup_passes, failures, group_no>>
    /\ UNCHANGED <<envvars, bakervars>>
    /\ UNCHANGED logvars

\* lines 255-256: no source had a follow-up job, _bakeRealm returns
BreakLoop ==
    /\ pc = "queue"
    /\ idx > Len(local_jobs)
    /\ ~had_any_job
    /\ pc' = "realms"
    /\ UNCHANGED bakerdata
    /\ UNCHANGED <<envvars, realmvars, histvars>>
    /\ UNCHANGED logvars

\* WaitFollowUp with the pool.wait() of line 258 left out
WaitFollowUp_NoBarrier ==
    /\ pc = "queue"
    /\ idx > Len(local_jobs)
    /\ had_any_job
    /\ cur_pass' = cur_pass + 1
    /\ followup_passes' = followup_passes + 1
    /\ pc' = "followup"
    /\ UNCHANGED bakerdata
    /\ UNCHANGED <<groups, pplist, idx, next_pass_jobs, local_jobs,
                   had_any_job, inflight, lookup_failed>>
    /\ UNCHANGED <<queue_log, declared, chain, failures, group_no>>
    /\ UNCHANGED envvars
    /\ UNCHANGED logvars

\* lines 258-259: the barrier after a follow-up pass
WaitFollowUp ==
    /\ pc = "queue"
    /\ idx > Len(local_jobs)
    /\ had_any_job
    /\ wait_returns
    /\ cur_pass' = cur_pass + 1
    /\ followup_passes' = followup_passes + 1
    /\ pc' = "followup"
    /\ UNCHANGED bakerdata
    /\ UNCHANGED <<groups, pplist, idx, next_pass_jobs, local_jobs,
                   had_any_job, inflight, lookup_failed>>
    /\ UNCHANGED <<queue_log, declared, chain, failures, group_no>>
    /\ UNCHANGED envvars
    /\ UNCHANGED logvars

\* -------------------------------------------------------------- callbacks
\* where the artifact of an item goes: a theme page and a user page of the
\* same relative path are baked to the same output path
OutputPath(s, item) == item

Artifact(s, item) == [path |-> OutputPath(s, item), source |-> s]

\* the worker writes the artifact of a job, replacing what was at its path
writeOutput(outs, s, item) ==
    {o \in outs : o.path # OutputPath(s, item)} \cup {Artifact(s, item)}

\* a theme-realm item is overridden when a user-realm record already holds
\* an entry with its output path
IsOverridden(mr, job) ==
    /\ SourceRealm(job.source_name) = REALM_THEME
    /\ \E k \in 1..Len(mr.records) :
          /\ SourceRealm(mr.records[k].key) = REALM_USER
          /\ \E n \in 1..Len(mr.records[k].val.entries) :
                OutputPath(mr.records[k].key,
                           mr.records[k].val.entries[n].item_spec)
                    = OutputPath(job.source_name, job.item)

\* the history of what came back, kept when a property is going to read it
Observed(o) == IF observe THEN outcomes \cup {o} ELSE outcomes

\* the entry a worker returns for a job: failed entries carry one message
ResultEntry(job, ok, over) ==
    [item_spec |-> job.item, errors |-> IF ok THEN <<>> ELSE <<"err">>,
     overridden |-> over]

\* _logErrors writing nothing
_logErrors_Silent(log, item_spec, errors) == log

\* lines 261-264: _logErrors(item_spec, errors)
_logErrors(log, item_spec, errors) ==
    log \cup {[item_spec |-> item_spec, errors |-> errors]}

\* MarkFailed without line 308 / 327: the generation is not marked
MarkFailed_RecordOnly(mr, name) ==
    [mr EXCEPT !.records = DictSet(@, name,
                   [DictGet(mr.records, name) EXCEPT !.success = FALSE])]

\* MarkFailed without line 307 / 326: the record is not marked
MarkFailed_GenerationOnly(mr, name) == [mr EXCEPT !.success = FALSE]

\* lines 307-308 and 326-327: record.success = False;
\* userdata.records.success = False
MarkFailed(mr, name) ==
    [mr EXCEPT !.success = FALSE,
               !.records = DictSet(@, name,
                   [DictGet(mr.records, name) EXCEPT !.success = FALSE])]

SetRecord(mr, name, rec) == [mr EXCEPT !.records = DictSet(@, name, rec)]

\* line 306 with the "not" left out
ReportsFailure_Inverted(entry) == EntrySuccess(entry)

\* line 306: if not res.record_entry.success
ReportsFailure(entry) == ~EntrySuccess(entry)

\* the test of lines 293 and 315 always taken
IsFirstPass_Always(p) == TRUE

\* lines 293 and 315: if cur_pass == 0
IsFirstPass(p) == p = 0

\* a successful entry setting the flags back to True
AfterSuccess_MarksOk(mr, name) ==
    [mr EXCEPT !.success = TRUE,
               !.records = DictSet(@, name,
                   [DictGet(mr.records, name) EXCEPT !.success = TRUE])]

\* lines 306-309: nothing is done for an entry that succeeded
AfterSuccess(mr, name) == mr

\* line 303: the pass a follow-up job is tagged with
NextPass(p) == p + 1

\* lines 289-309: _handleWorkerResult(job, res, userdata); the result holds
\* an entry (successful or not) and optionally one follow-up job
HandleWorkerResult(i, ok, next) ==
    LET job    == inflight[i]
        over   == IsOverridden(current_records, job)
        entry  == ResultEntry(job, ok, over)
        mr0    == getRecord(current_records, job.record_name)
        record == DictGet(mr0.records, job.record_name)
        found  == IsFirstPass(cur_pass) \/ HasEntry(record, job.item)
        mr1    == IF IsFirstPass(cur_pass)
                  THEN SetRecord(mr0, job.record_name,
                                 addEntry(record, entry))
                  ELSE IF found
                       THEN SetRecord(mr0, job.record_name,
                                      mergeRecordEntry(record, entry))
                       ELSE mr0
        npj    == [job EXCEPT !.pass = NextPass(cur_pass)]
        haskey == DictHas(next_pass_jobs, job.source_name)
        mr2    == IF ReportsFailure(entry)
                  THEN MarkFailed(mr1, job.record_name)
                  ELSE AfterSuccess(mr1, job.record_name)
        \* a failed lookup raises and the rest of the callback is skipped
        raised == ~found \/ (next /\ ~haskey)
    IN  /\ next => chain[<<job.source_name, job.item>>] < MaxChain
        /\ ~ok => CanReportErrors(job.item)
        /\ inflight' = RemoveAt(inflight, i)
        /\ current_records' = IF raised THEN mr1 ELSE mr2
        /\ IF next /\ found /\ haskey
           THEN next_pass_jobs' =
                    DictSet(next_pass_jobs, job.source_name,
                        Append(DictGet(next_pass_jobs, job.source_name),
                               npj))
           ELSE UNCHANGED next_pass_jobs
        /\ IF next
           THEN /\ declared' = declared \cup
                        {[job |-> npj, parent |-> job, group |-> group_no]}
                /\ chain' = [chain EXCEPT
                                ![<<job.source_name, job.item>>] = @ + 1]
           ELSE UNCHANGED <<declared, chain>>
        /\ lookup_failed' = (lookup_failed \/ raised)
        /\ failures' = IF ok THEN failures ELSE failures + 1
        /\ caches' = [caches EXCEPT !["pages"] = TRUE, !["renders"] = TRUE]
        /\ outputs' = IF ok /\ ~over
                      THEN writeOutput(outputs, job.source_name, job.item)
                      ELSE outputs
        /\ error_log' = IF ReportsFailure(entry) /\ ~raised
                        THEN _logErrors(error_log, job.item, entry.errors)
                        ELSE error_log
        /\ outcomes' = Observed([job |-> job,
                                  kind |-> IF ok THEN "ok" ELSE "err",
                                  next |-> next])
        /\ UNCHANGED <<calls, saved, observe>>
        /\ UNCHANGED <<now, templates, cache_valid, files, content>>
        /\ UNCHANGED <<force, allowed_pipelines, is_baking, pc, bakes,
                       start_force, loaded, previous_records, is_cache_valid,
                       record_histories, pipelines, pool, result>>
        /\ UNCHANGED <<groups, pplist, idx, cur_pass, local_jobs,
                       had_any_job>>
        /\ UNCHANGED <<queue_log, followup_passes, group_no>>

\* lines 323-324 with the entry's errors replaced, not appended to
appendFailure_Overwrite(rec, spec, msg) ==
    [rec EXCEPT !.entries[EntryIndex(rec, spec)].errors = <<msg>>]

\* lines 323-324: e = record.getEntry(spec); e.errors.append(str(exc_data))
appendFailure(rec, spec, msg) == AppendErrors(rec, spec, <<msg>>)

\* lines 311-331: _handleWorkerError(job, exc_data, userdata)
HandleWorkerError(i) ==
    LET job    == inflight[i]
        mr0    == getRecord(current_records, job.record_name)
        record == DictGet(mr0.records, job.record_name)
        found  == IsFirstPass(cur_pass) \/ HasEntry(record, job.item)
        e      == [item_spec |-> job.item, errors |-> <<"exc">>,
                   overridden |-> FALSE]
        mr1    == IF IsFirstPass(cur_pass)
                  THEN SetRecord(mr0, job.record_name, addEntry(record, e))
                  ELSE IF found
                       THEN SetRecord(mr0, job.record_name,
                                appendFailure(record, job.item, "exc"))
                       ELSE mr0
    IN  /\ inflight' = RemoveAt(inflight, i)
        /\ current_records' = IF found THEN MarkFailed(mr1, job.record_name)
                                        ELSE mr1
        /\ lookup_failed' = (lookup_failed \/ ~found)
        /\ failures' = failures + 1
        /\ error_log' =
              IF found
              THEN _logErrors(error_log, job.item,
                      getEntry(DictGet(mr1.records, job.record_name),
                               job.item).errors)
              ELSE error_log
        /\ outcomes' = Observed([job |-> job, kind |-> "exc",
                                  next |-> FALSE])
        /\ UNCHANGED <<calls, saved, outputs, observe>>
        /\ UNCHANGED <<force, allowed_pipelines, is_baking, pc, bakes,
                       start_force, loaded, previous_records, is_cache_valid,
                       record_histories, pipelines, pool, result>>
        /\ UNCHANGED <<groups, pplist, idx, cur_pass, next_pass_jobs,
                       local_jobs, had_any_job>>
        /\ UNCHANGED <<queue_log, declared, chain, followup_passes,
                       group_no>>
        /\ UNCHANGED envvars

\* the pool delivers the callback of some job in flight
DeliverResult ==
    \E i \in 1..Len(inflight), ok \in BOOLEAN, next \in BOOLEAN :
        HandleWorkerResult(i, ok, next)

DeliverError == \E i \in 1..Len(inflight) : HandleWorkerError(i)

\* ------------------------------------------------------ finalize, persist
\* lines 129-143: history diffs, stale outputs, collapse, pool.close(),
\* shutdownPipelines()
EntrySpecs(mr, s) ==
    IF DictHas(mr.records, s)
    THEN {DictGet(mr.records, s).entries[n].item_spec :
            n \in 1..Len(DictGet(mr.records, s).entries)}
    ELSE {}

\* buildHistoryDiffs(): the item specs of a source the previous generation
\* holds and the current one does not
Removed(prev, cur, s) == EntrySpecs(prev, s) \ EntrySpecs(cur, s)

\* deleteStaleOutputs(): the artifacts of the removed items are deleted
deleteStaleOutputs(outs, prev, cur, pps) ==
    {o \in outs :
        ~(/\ o.source \in pps
          /\ \E it \in Removed(prev, cur, o.source) :
                o.path = OutputPath(o.source, it))}

\* the finalize block with pool.close() moved in front of the diffs
FinalizeCalls_CloseFirst ==
    <<"close", "buildHistoryDiffs", "deleteStaleOutputs", "collapseRecords",
      "shutdownPipelines">>

\* lines 130-143: the calls of the finalize block, in the order of the code
FinalizeCalls ==
    <<"buildHistoryDiffs", "deleteStaleOutputs", "collapseRecords",
      "close", "shutdownPipelines">>

Finalize ==
    /\ pc = "realms"
    /\ groups = <<>>
    /\ outputs' = deleteStaleOutputs(outputs, record_histories.previous,
                                     current_records, pipelines)
    /\ calls' = calls \o FinalizeCalls
    /\ pc' = "persist"
    /\ UNCHANGED bakerdata
    /\ UNCHANGED <<envvars, realmvars, histvars>>
    /\ UNCHANGED <<saved, error_log, outcomes, observe>>

\* the backup loop renaming the primary only
RotateFrom_PrimaryOnly(fs, i) ==
    IF fs[0].exists THEN [fs EXCEPT ![1] = fs[0], ![0] = NoFile] ELSE fs

\* lines 148-159: the backup loop, for i = k, k-1, ..., 0
RECURSIVE RotateFrom(_, _)
RotateFrom(fs, i) ==
    IF i < 0 THEN fs
    ELSE RotateFrom(IF fs[i].exists
                    THEN [fs EXCEPT ![i + 1] = fs[i], ![i] = NoFile]
                    ELSE fs,
                    i - 1)

\* lines 145-166: rotate the backups, stamp and save the current records
Persist ==
    /\ pc = "persist"
    /\ current_records' = [current_records EXCEPT !.bake_time = now]
    /\ files' = [RotateFrom(files, NumBackups - 1) EXCEPT
                    ![0] = StoredFile(current_records')]
    /\ caches' = [caches EXCEPT !["baker"] = TRUE]
    /\ calls' = calls \o <<"rotate", "save">>
    /\ saved' = <<current_records'>> \o saved
    /\ UNCHANGED <<outputs, error_log, outcomes, observe>>
    /\ pc' = "done"
    /\ UNCHANGED <<now, templates, cache_valid, content>>
    /\ UNCHANGED <<force, allowed_pipelines, is_baking, bakes, start_force,
                   loaded, previous_records, is_cache_valid,
                   record_histories, pipelines, pool, result>>
    /\ UNCHANGED <<realmvars, histvars>>

\* lines 168-172: leave bake mode and return current_records; the locals of
\* bake() go out of scope
Done ==
    /\ pc = "done"
    /\ is_baking' = FALSE
    /\ result' = [kind |-> "returned", records |-> current_records]
    /\ pc' = "idle"
    /\ start_force' = FALSE
    /\ loaded' = FALSE
    /\ previous_records' = MultiRecord
    /\ current_records' = MultiRecord
    /\ is_cache_valid' = FALSE
    /\ record_histories' = NoHistory
    /\ pipelines' = {}
    /\ pool' = NoPool
    /\ groups' = <<>>
    /\ pplist' = <<>>
    /\ idx' = 1
    /\ cur_pass' = 0
    /\ next_pass_jobs' = EmptyDict
    /\ local_jobs' = EmptyDict
    /\ had_any_job' = FALSE
    /\ queue_log' = <<>>
    /\ declared' = {}
    /\ chain' = ZeroChain
    /\ followup_passes' = 0
    /\ failures' = 0
    /\ group_no' = 0
    /\ calls' = <<>>
    /\ error_log' = {}
    /\ outcomes' = {}
    /\ UNCHANGED <<saved, outputs, observe>>
    /\ UNCHANGED <<force, allowed_pipelines, bakes, inflight, lookup_failed>>
    /\ UNCHANGED envvars

\* -------------------------------------------------------- specifications
BakeStep ==
    \/ HandleCacheValidity
    \/ PipelineSetup
    \/ CreatePool
    \/ BeginRealm
    \/ QueuePass0
    \/ WaitPass0
    \/ SwapNextPassJobs
    \/ QueueFollowUp
    \/ BreakLoop
    \/ WaitFollowUp
    \/ DeliverResult
    \/ DeliverError
    \/ Finalize
    \/ Persist
    \/ Done

\* any number of bakes of the tiny site, the environment changing in between
Next ==
    \/ NewBaker
    \/ Tick
    \/ TouchTemplate
    \/ CorruptRecords
    \/ StartBake
    \/ BakeStep

Spec == Init /\ [][Next]_vars

\* the first bake of the full site
FirstBake == bakes = 0 /\ StartBake

PassNext == FirstBake \/ BakeStep

PassSpec == PassInit /\ [][PassNext]_vars

\* what n earlier runs of the bake command over the tiny site left: file k
\* holds the generation saved k bakes before the latest, one clock tick
\* apart, the oldest a full bake and the others incremental
EarlierGeneration(k, n) ==
    [MultiRecord EXCEPT !.records = <<PriorRecords>>, !.bake_time = 1 - k,
                        !.incremental_count = IF k = n - 1 THEN 0 ELSE 1]

DiskOf(n) ==
    [k \in FileIndexes |->
        IF k < n THEN StoredFile(EarlierGeneration(k, n)) ELSE NoFile]

RotationDisks == {DiskOf(n) : n \in 0..(NumBackups + 1)}

\* Baker.__init__ over the tiny site with every pipeline allowed, the output
\* directory baked any number of times before
RotationInit ==
    /\ Fresh
    /\ observe = FALSE
    /\ content = TinySite
    /\ files \in RotationDisks
    /\ caches = [c \in CacheNames |-> c = "app" \/ files # NoFiles]
    /\ outputs = IF files # NoFiles THEN PriorOutputs ELSE {}
    /\ templates = [f \in TemplateFiles |-> 0]
    /\ cache_valid = TRUE
    /\ force \in BOOLEAN
    /\ allowed_pipelines = _pipeline_classes

\* the bake command is run again and again, nothing else changing
RotationNext == StartBake \/ BakeStep

RotationSpec == RotationInit /\ [][RotationNext]_vars

\* a site whose theme has the page the user has, and with one taxonomy term
OrderSite == [s \in SourceNames |->
                IF s = "assets" THEN {}
                ELSE IF s = "tags" THEN {"x"}
                ELSE {"q"}]

\* Baker.__init__ over that site, the page and the taxonomy pipelines allowed
OrderInit ==
    /\ Fresh
    /\ observe = FALSE
    /\ content = OrderSite
    /\ files = NoFiles
    /\ caches = [c \in CacheNames |-> c = "app"]
    /\ outputs = {}
    /\ templates = [f \in TemplateFiles |-> 0]
    /\ cache_valid = TRUE
    /\ force = FALSE
    /\ allowed_pipelines = {"page", "taxonomy"}

OrderSpec == OrderInit /\ [][PassNext]_vars

\* the tiny site after a second page was written
ScenarioSite == [s \in SourceNames |->
                    IF s = "pages" THEN {"q", "p1"} ELSE {}]

\* Baker.__init__ over that site, the output directory holding what the
\* earlier bakes of the tiny site left, nothing else changed since
ScenarioInit ==
    /\ Fresh
    /\ observe = FALSE
    /\ content = ScenarioSite
    /\ files = PriorFiles
    /\ caches = [c \in CacheNames |-> TRUE]
    /\ outputs = PriorOutputs
    /\ templates = [f \in TemplateFiles |-> 0]
    /\ cache_valid = TRUE
    /\ force = FALSE
    /\ allowed_pipelines = {"page"}

ScenarioSpec == ScenarioInit /\ [][PassNext]_vars

\* a site with two pages in one source of the user realm
InterleaveSite == [s \in SourceNames |->
                    IF s = "pages" THEN {"p1", "q"} ELSE {}]

\* Baker.__init__ over that site, no earlier bake; what comes back for each
\* job is kept
InterleaveInit ==
    /\ Fresh
    /\ observe = TRUE
    /\ content = InterleaveSite
    /\ files = NoFiles
    /\ caches = [c \in CacheNames |-> c = "app"]
    /\ outputs = {}
    /\ templates = [f \in TemplateFiles |-> 0]
    /\ cache_valid = TRUE
    /\ force = FALSE
    /\ allowed_pipelines = {"page", "asset"}

InterleaveSpec == InterleaveInit /\ [][PassNext]_vars

\* Baker.__init__ without force over the tiny site, every pipeline allowed,
\* the output directory never baked or baked once before
LatchInit ==
    /\ Fresh
    /\ observe = FALSE
    /\ content = TinySite
    /\ files \in {NoFiles, PriorFiles}
    /\ caches = [c \in CacheNames |-> c = "app" \/ files = PriorFiles]
    /\ outputs = IF files = PriorFiles THEN PriorOutputs ELSE {}
    /\ templates = [f \in TemplateFiles |-> 0]
    /\ cache_valid \in BOOLEAN
    /\ force = FALSE
    /\ allowed_pipelines = _pipeline_classes

\* bake() is called again and again on that one Baker, nothing else changing
LatchSpec == LatchInit /\ [][RotationNext]_vars

\* the pool delivers every callback and bake() is never suspended for ever
FairPassSpec == PassSpec /\ WF_vars(PassNext)

\* ================================================================ claims
Records == current_records.records

QueuedCount(j) ==
    Cardinality({k \in 1..Len(queue_log) : queue_log[k].job = j})

\* _bakeRealm is not running: before the first group, between two groups or
\* after the last one
OutsideRealm == pc \in {"realms", "persist", "done"}

\* C1: pass barrier - every job in flight belongs to the current pass of
\* the running _bakeRealm, so jobs of two different passes are never in
\* flight together and no job of pass N+1 is queued while a job of pass N
\* still waits for its callback.
C1_PassBarrier ==
    \A i \in 1..Len(inflight) : inflight[i].pass = cur_pass

C1_Witness == Len(inflight) >= 2 /\ cur_pass >= 1

\* C2: exactly-once follow-up dispatch - a follow-up job declared by a
\* result of pass N is tagged N+1, is queued at most once, and when it is
\* queued that happens in pass N+1 of the realm group that declared it;
\* once the follow-up loop has exited every declared job was queued exactly
\* once.
C2_ExactlyOnce ==
    \A d \in declared :
        /\ d.job.pass = d.parent.pass + 1
        /\ QueuedCount(d.job) <= 1
        /\ \A k \in 1..Len(queue_log) :
              queue_log[k].job = d.job =>
                  /\ queue_log[k].at = d.parent.pass + 1
                  /\ queue_log[k].group = d.group
        /\ (OutsideRealm \/ d.group < group_no) => QueuedCount(d.job) = 1

C2_Witness ==
    /\ pc = "realms"
    /\ Cardinality(declared) >= 3
    /\ \E d \in declared : d.job.pass = 2 /\ QueuedCount(d.job) = 1

\* the longest follow-up chain among the sources of the running realm group
LongestChain ==
    Max({0} \cup {chain[<<pplist[k], it>>] :
                    k \in 1..Len(pplist), it \in ItemSpecs})

RealmExited == pc = "realms" /\ group_no >= 1

\* C3: pass termination - every _bakeRealm that started returns, and when
\* it returns the number of follow-up passes it waited for is the length of
\* the longest follow-up chain of its sources (the loop stopped at the first
\* pass that left no follow-up job).
C3_PassTermination ==
    /\ [](RealmExited => followup_passes = LongestChain)
    /\ ((pc = "pass0") ~> RealmExited)

C3_Witness ==
    /\ RealmExited
    /\ followup_passes = 2
    /\ \E k \in 1..Len(pplist) : \E it \in content[pplist[k]] :
          chain[<<pplist[k], it>>] = 0

\* every pass-0 job of every pipeline and every declared follow-up job was
\* queued
AllDispatched ==
    /\ \A s \in pipelines : \A it \in content[s] :
          QueuedCount(Job(s, it, 0)) = 1
    /\ \A d \in declared : QueuedCount(d.job) = 1

\* C4: a failed entry or an error callback never aborts the bake - once a
\* failure was delivered the bake still reaches the point where bake()
\* returns, every job and follow-up job having been dispatched, and the
\* generation it returns has success = false.
C4_FailureNeverAborts ==
    /\ [](pc = "done" /\ failures > 0 =>
              ~current_records.success /\ AllDispatched)
    /\ ((failures > 0) ~> (pc = "done"))

C4_Witness ==
    /\ pc = "done"
    /\ failures >= 1
    /\ ~current_records.success
    /\ group_no = 2
    /\ \E k \in 1..Len(queue_log) : queue_log[k].at >= 1

AllRecordsSucceed(mr) ==
    \A k \in 1..Len(mr.records) : mr.records[k].val.success

\* C5: the success flag of the generation is the AND of the success flags
\* of its records, during the bake and in what bake() returns.
C5_GenerationSuccess ==
    /\ current_records.success = AllRecordsSucceed(current_records)
    /\ result.records.success = AllRecordsSucceed(result.records)

C5_Witness ==
    /\ result.kind = "returned"
    /\ ~result.records.success
    /\ \E k \in 1..Len(result.records.records) :
          result.records.records[k].val.success

AllEntriesSucceed(rec) ==
    \A k \in 1..Len(rec.entries) : EntrySuccess(rec.entries[k])

\* C6: the success flag of a record is the AND of the success flags of the
\* entries it holds, after any appends, merges and error callbacks.
C6_RecordSuccess ==
    \A k \in 1..Len(Records) :
        Records[k].val.success = AllEntriesSucceed(Records[k].val)

C6_Witness ==
    /\ pc = "done"
    /\ \E k \in 1..Len(Records) :
          /\ ~Records[k].val.success
          /\ \E e \in 1..Len(Records[k].val.entries) :
                Len(Records[k].val.entries[e].errors) >= 2

\* the latest modification time of a template file, 0 when there is none
LatestTemplateTime ==
    IF DOMAIN templates = {} THEN 0
    ELSE CHOOSE t \in Range(templates) : \A u \in Range(templates) : u <= t

\* C7 as stated: the validity flag is false exactly when the bake is forced,
\* the previous generation is invalidated or some template file has a
\* modification time at or after the previous bake_time.
C7_OnlyThreeConditions ==
    [][pc = "validity" =>
        (is_cache_valid' =
            ~(\/ force
              \/ previous_records.invalidated
              \/ \E f \in DOMAIN templates :
                    templates[f] >= previous_records.bake_time))]_vars

\* C7 amended: the validity flag is false exactly when the bake is forced,
\* the configuration's '__cache_valid' is false, the previous generation is
\* invalidated, or the latest template modification time (0 without any
\* template file) is at or after the previous bake_time (equality counts).
C7_CacheValidity ==
    [][pc = "validity" =>
        (is_cache_valid' =
            ~(\/ force
              \/ ~cache_valid
              \/ previous_records.invalidated
              \/ LatestTemplateTime >= previous_records.bake_time))]_vars

C7_Witness ==
    /\ pc = "setup"
    /\ ~is_cache_valid
    /\ ~start_force
    /\ cache_valid
    /\ loaded
    /\ ~files[0].corrupt
    /\ LatestTemplateTime = files[0].gen.bake_time

\* C8 as stated: the generation saved by a bake whose cache was invalid has
\* incremental_count 0, and the one saved by a bake whose cache was valid has
\* one more than the previous generation it loaded.
C8_IncrementalCountChains ==
    pc = "done" =>
        files[0].gen.incremental_count =
            IF is_cache_valid
            THEN record_histories.previous.incremental_count + 1
            ELSE 0

\* C9: forced invalidation - a bake entered with force set does not load
\* the stored records, gives the current generation incremental_count 0 and
\* leaves no cache region but 'app' and 'baker' with content.
C9_ForcedInvalidation ==
    (pc = "setup" /\ start_force) =>
        /\ ~loaded
        /\ previous_records = MultiRecord
        /\ current_records.incremental_count = 0
        /\ \A c \in CacheNames \ {"app", "baker"} : ~caches[c]

C9_Witness ==
    /\ pc = "setup"
    /\ start_force
    /\ cache_valid
    /\ files[0].exists
    /\ ~files[0].corrupt
    /\ files[0].gen.incremental_count = 1
    /\ LatestTemplateTime < files[0].gen.bake_time
    /\ caches["baker"]

\* C10: full rebuild on invalidation - when the validity flag is false the
\* caches other than 'app' and 'baker' are wiped, the record history pairs
\* the current generation with an empty previous one, and the worker pool is
\* created with force = true.
C10_FullRebuild ==
    /\ (pc = "setup" /\ ~is_cache_valid) =>
            \A c \in CacheNames \ {"app", "baker"} : ~caches[c]
    /\ (record_histories.created /\ ~is_cache_valid) =>
            record_histories.previous = MultiRecord
    /\ (pool.created /\ ~is_cache_valid) => pool.force

C10_Witness ==
    /\ pool.created
    /\ pc = "realms"
    /\ ~is_cache_valid
    /\ ~start_force
    /\ cache_valid
    /\ loaded
    /\ ~files[0].corrupt
    /\ files[0].gen.records # <<>>
    /\ LatestTemplateTime >= files[0].gen.bake_time

\* the generation the running bake() read from the primary records file was
\* invalidated (the file was unreadable or of another version); once the
\* bake has persisted, that file is backup .1
ReadInvalidated ==
    /\ pc # "idle"
    /\ loaded
    /\ (IF pc = "done" THEN files[1] ELSE files[0]).corrupt

NoAllowedPipeline ==
    \A s \in SourceNames :
        get_pipeline_name_for_source(s) \notin allowed_pipelines

\* C11: corruption of the record store is never fatal and never partially
\* trusted - a bake that read an invalidated generation pairs the current
\* generation with an empty previous one, hands force = true to the worker
\* pool, saves a new readable generation with incremental_count 0 as the
\* primary, and ends by raising only when no source has an allowed pipeline.
C11_CorruptionNeverFatal ==
    /\ [](ReadInvalidated =>
            /\ pc # "validity" =>
                    ~is_cache_valid /\ previous_records = MultiRecord
            /\ record_histories.created =>
                    record_histories.previous = MultiRecord
            /\ pool.created => pool.force
            /\ pc = "done" =>
                    /\ files[0] = StoredFile(current_records)
                    /\ current_records.incremental_count = 0
                    /\ current_records.bake_time = now)
    /\ [][(ReadInvalidated /\ pc' = "idle") =>
            \/ pc = "done" /\ result'.kind = "returned"
            \/ pc = "setup" /\ NoAllowedPipeline]_vars

C11_Witness ==
    /\ pc = "done"
    /\ ReadInvalidated
    /\ ~start_force
    /\ cache_valid
    /\ LatestTemplateTime < files[1].gen.bake_time
    /\ files[1].gen.records # <<>>
    /\ files[0].gen.records # <<>>

Backups == {k \in FileIndexes \ {0} : files[k].exists}

\* the files are what the disk held at first, shifted by the bakes that have
\* saved a generation since, with those generations in front
ShiftedFrom(d) ==
    \A k \in 0..NumBackups :
        IF k < Len(saved)
        THEN files[k].exists /\ files[k].gen = saved[k + 1]
        ELSE /\ files[k].exists = d[k - Len(saved)].exists
             /\ files[k].gen = d[k - Len(saved)].gen

\* C12: backup rotation - the persist step moves every existing records
\* file of index k in 0..8 to index k+1 unchanged, drops what was at index 9
\* and saves the new generation as the primary; so there are never more than
\* 9 backups, backup .k holds the generation saved k bakes earlier, and a
\* primary with 9 backups leaves exactly 9 backups.
C12_BackupRotation ==
    /\ [](/\ Cardinality(Backups) <= NumBackups
          /\ ~files[NumBackups + 1].exists
          /\ \E d \in RotationDisks : ShiftedFrom(d))
    /\ [][pc = "persist" =>
            /\ \A k \in 0..(NumBackups - 1) :
                    IF files[k].exists
                    THEN files'[k + 1] = files[k]
                    ELSE ~files'[k + 1].exists
            /\ files'[0] = StoredFile(current_records')
            /\ (Cardinality(Backups) = NumBackups /\ files[0].exists) =>
                    Cardinality(Backups') = NumBackups]_vars

C12_Witness ==
    /\ pc = "done"
    /\ Len(saved) = 1
    /\ Cardinality(Backups) = NumBackups
    /\ files[NumBackups].gen = EarlierGeneration(NumBackups - 1, NumBackups + 1)
    /\ files[1].gen = EarlierGeneration(0, NumBackups + 1)

IsPrefix(s, t) == Len(s) <= Len(t) /\ s = SubSeq(t, 1, Len(s))

CallCount(name) == Cardinality({k \in 1..Len(calls) : calls[k] = name})

NoPendingFollowUp ==
    \A k \in 1..Len(next_pass_jobs) : next_pass_jobs[k].val = <<>>

\* C13: finalize ordering - buildHistoryDiffs is called once per bake and
\* only when every realm group has been baked with no job in flight and no
\* follow-up job pending; deleteStaleOutputs, collapseRecords, the pool's
\* close, shutdownPipelines, the backup rotation and the save follow, once
\* each, in that order.
C13_FinalizeOrdering ==
    /\ [](/\ IsPrefix(calls,
                <<"buildHistoryDiffs", "deleteStaleOutputs",
                  "collapseRecords", "close", "shutdownPipelines",
                  "rotate", "save">>)
          /\ pc = "done" => Len(calls) = 7)
    /\ [][(CallCount("buildHistoryDiffs") = 0
            /\ CallCount("buildHistoryDiffs")' = 1) =>
                /\ groups = <<>>
                /\ pc = "realms"
                /\ inflight = <<>>
                /\ NoPendingFollowUp
                /\ \A d \in declared : QueuedCount(d.job) = 1]_vars

C13_Witness ==
    /\ pc = "done"
    /\ Len(calls) = 7
    /\ group_no = 2
    /\ \E d \in declared : d.group = 1
    /\ \E d \in declared : d.group = 2

\* bake() hands control back to its caller, by returning or by raising
BakeEnds == pc # "idle" /\ pc' = "idle"

\* C14 as stated: by the time a bake() invocation ends, whether it returns
\* or raises, shutdownPipelines has been called exactly once, and after the
\* worker pool's close.
C14_ShutdownExactlyOnce ==
    [][BakeEnds =>
        /\ CallCount("shutdownPipelines") = 1
        /\ \E i, j \in 1..Len(calls) :
              /\ i < j
              /\ calls[i] = "close"
              /\ calls[j] = "shutdownPipelines"]_vars

\* C15: structural failure is fatal and early - with no source whose
\* pipeline name is allowed, bake() raises from its pipeline setup: no worker
\* pool is created, no job is queued, the records files are neither rotated
\* nor written.
C15_StructuralFailure ==
    /\ [](NoAllowedPipeline =>
            /\ pc \in {"idle", "validity", "setup"}
            /\ ~pool.created
            /\ inflight = <<>>
            /\ queue_log = <<>>
            /\ calls = <<>>
            /\ saved = <<>>)
    /\ [][NoAllowedPipeline =>
            /\ (pc # "idle" \/ pc' # "idle") => files' = files
            /\ pc = "setup" => pc' = "idle" /\ result'.kind = "raised"]_vars

C15_Witness ==
    /\ pc = "idle"
    /\ result.kind = "raised"
    /\ NoAllowedPipeline
    /\ files = PriorFiles
    /\ bakes = 2

\* where a source comes in the dispatch order the claim gives: by PASS_NUM
\* first, user realm before theme realm inside one PASS_NUM
DispatchRank(s) ==
    2 * PASS_NUM(s) + (IF SourceRealm(s) = REALM_USER THEN 0 ELSE 1)

\* C16: dispatch order of realm groups - jobs are queued in ascending
\* PASS_NUM and, inside one PASS_NUM, user realm before theme realm; when a
\* job is queued, no job of another group is in flight and every follow-up
\* job declared in an earlier group has been queued, so each group is
\* drained, follow-up passes included, before the next one starts.
C16_RealmGroupOrder ==
    /\ \A k, l \in 1..Len(queue_log) :
          k < l => DispatchRank(queue_log[k].job.source_name)
                      <= DispatchRank(queue_log[l].job.source_name)
    /\ \A i, j \in 1..Len(inflight) :
          DispatchRank(inflight[i].source_name)
              = DispatchRank(inflight[j].source_name)
    /\ \A k \in 1..Len(queue_log) : \A d \in declared :
          DispatchRank(d.job.source_name)
              < DispatchRank(queue_log[k].job.source_name)
                  => QueuedCount(d.job) = 1
    /\ \A k \in 1..Len(queue_log) : \A i \in 1..Len(inflight) :
          DispatchRank(inflight[i].source_name)
              >= DispatchRank(queue_log[k].job.source_name)

C16_Witness ==
    /\ \E i \in 1..Len(inflight) : inflight[i].source_name = "tags"
    /\ \E d \in declared : d.job.source_name = "theme"
    /\ \E d \in declared : d.job.source_name = "pages" /\ d.job.pass = 2

\* the item specs of the entries of a record, in the order they were added
SpecSeq(mr, s) ==
    IF DictHas(mr.records, s)
    THEN [n \in 1..Len(DictGet(mr.records, s).entries) |->
            DictGet(mr.records, s).entries[n].item_spec]
    ELSE <<>>

EntryCount(mr, s, item) ==
    Cardinality({n \in 1..Len(SpecSeq(mr, s)) : SpecSeq(mr, s)[n] = item})

\* C17: one entry per item per bake - the callback of a pass-0 job, success
\* or error, appends exactly one entry with the job's item spec to the job's
\* record; no other step of the bake adds or removes an entry, so a record
\* holds one entry for every pass-0 job whose callback was delivered and none
\* for any other item.
C17_OneEntryPerItem ==
    /\ [](pc \notin {"idle", "validity", "setup", "pool"} =>
            \A s \in SourceNames : \A item \in ItemSpecs :
                EntryCount(current_records, s, item) =
                    IF /\ QueuedCount(Job(s, item, 0)) = 1
                       /\ \A i \in 1..Len(inflight) :
                             inflight[i] # Job(s, item, 0)
                    THEN 1 ELSE 0)
    /\ [][pc \notin {"idle", "done"} =>
            IF Len(inflight') < Len(inflight)
            THEN \E i \in 1..Len(inflight) :
                    /\ inflight' = RemoveAt(inflight, i)
                    /\ \A s \in SourceNames :
                          SpecSeq(current_records', s) =
                              IF cur_pass = 0 /\ inflight[i].record_name = s
                              THEN Append(SpecSeq(current_records, s),
                                          inflight[i].item)
                              ELSE SpecSeq(current_records, s)
            ELSE \A s \in SourceNames :
                    SpecSeq(current_records', s)
                        = SpecSeq(current_records, s)]_vars

C17_Witness ==
    /\ pc = "persist"
    /\ \E d \in declared : d.job.pass = 2
    /\ \A s \in {"pages", "assets", "theme"} :
          Len(SpecSeq(current_records, s)) = 1
    /\ getEntry(DictGet(Records, "pages"), "p1").errors = <<"err", "exc">>
    /\ getEntry(DictGet(Records, "assets"), "x").errors = <<>>

EntriesOf(mr, s) ==
    IF DictHas(mr.records, s) THEN DictGet(mr.records, s).entries ELSE <<>>

FailedRecords(mr) ==
    {mr.records[k].key : k \in {n \in 1..Len(mr.records) :
                                    ~mr.records[n].val.success}}

\* C18: error callback - for a pass-0 job it appends to the job's record a
\* new entry with the job's item spec and the failure description; for a job
\* of a later pass it appends the failure description to the errors of the
\* existing entry of that item spec and leaves every other entry alone; both
\* mark the record and the generation failed, and a failed record or
\* generation stays failed until the bake has saved it.
C18_ErrorCallback ==
    /\ [][\A i \in 1..Len(inflight) : HandleWorkerError(i) =>
            LET job == inflight[i]
                old == EntriesOf(current_records, job.record_name)
                new == EntriesOf(current_records', job.record_name)
            IN  /\ IF cur_pass = 0
                   THEN new = Append(old, [item_spec |-> job.item,
                                           errors |-> <<"exc">>,
                                           overridden |-> FALSE])
                   ELSE /\ Len(new) = Len(old)
                        /\ \A n \in 1..Len(old) :
                              new[n] =
                                IF old[n].item_spec = job.item
                                THEN [old[n] EXCEPT
                                        !.errors = Append(@, "exc")]
                                ELSE old[n]
                /\ job.record_name \in FailedRecords(current_records')
                /\ ~current_records'.success]_vars
    /\ [][pc \notin {"idle", "done"} =>
            /\ ~current_records.success => ~current_records'.success
            /\ FailedRecords(current_records)
                  \subseteq FailedRecords(current_records')]_vars

C18_Witness ==
    /\ pc = "done"
    /\ ~files[0].gen.success
    /\ FailedRecords(current_records) = {"pages", "assets"}
    /\ getEntry(DictGet(Records, "pages"), "p1").errors = <<"err", "exc">>
    /\ getEntry(DictGet(Records, "assets"), "x").errors = <<"exc">>
    /\ getEntry(DictGet(Records, "theme"), "p1").errors = <<>>

\* the scenario's case: the previous generation holds the entry of A ("q"),
\* successful, and nothing else; the current bake has recorded A without
\* errors and B ("p1") with errors
ScenarioCase ==
    /\ pc = "done"
    /\ EntriesOf(record_histories.previous, "pages")
          = <<[item_spec |-> "q", errors |-> <<>>, overridden |-> FALSE]>>
    /\ Len(record_histories.previous.records) = 1
    /\ HasEntry(DictGet(Records, "pages"), "q")
    /\ HasEntry(DictGet(Records, "pages"), "p1")
    /\ getEntry(DictGet(Records, "pages"), "q").errors = <<>>
    /\ getEntry(DictGet(Records, "pages"), "p1").errors # <<>>

\* C19: scenario - previous generation {A: success}, current bake A:
\* success and B: failure. The generation the bake returns has success =
\* false, its record holds exactly A and B, every failure message of B was
\* logged under B's item spec, and A's artifact is still in the output
\* directory after the stale outputs were deleted.
C19_Scenario ==
    ScenarioCase =>
        /\ ~current_records.success
        /\ files[0].gen = current_records
        /\ EntrySpecs(current_records, "pages") = {"q", "p1"}
        /\ Len(EntriesOf(current_records, "pages")) = 2
        /\ \A n \in 1..Len(getEntry(DictGet(Records, "pages"), "p1").errors) :
              \E l \in error_log :
                  /\ l.item_spec = "p1"
                  /\ \E m \in 1..Len(l.errors) :
                        l.errors[m] =
                          getEntry(DictGet(Records, "pages"), "p1").errors[n]
        /\ CallCount("deleteStaleOutputs") = 1
        /\ Artifact("pages", "q") \in outputs

C19_Witness ==
    /\ ScenarioCase
    /\ is_cache_valid
    /\ getEntry(DictGet(Records, "pages"), "p1").errors = <<"err", "exc">>
    /\ Artifact("pages", "p1") \notin outputs

\* a user-realm source u and a theme-realm source t, both with a pipeline,
\* claim the item spec at the same output path
BothClaim(u, t, item) ==
    /\ SourceRealm(u) = REALM_USER
    /\ SourceRealm(t) = REALM_THEME
    /\ {u, t} \subseteq pipelines
    /\ item \in content[u] \cap content[t]
    /\ OutputPath(u, item) = OutputPath(t, item)

\* C20: realm precedence - when finalize runs, for every item spec a user
\* source and a theme source both claim at one output path, the user
\* source's entry is recorded and is not overridden, the entry a worker
\* returned for the theme source is marked overridden, and the artifact at
\* that path, if there is one, is the user source's.
C20_RealmPrecedence ==
    (pc \in {"persist", "done"}) =>
        \A u \in SourceNames, t \in SourceNames, item \in ItemSpecs :
            BothClaim(u, t, item) =>
                /\ HasEntry(DictGet(Records, u), item)
                /\ ~getEntry(DictGet(Records, u), item).overridden
                /\ HasEntry(DictGet(Records, t), item)
                /\ \/ getEntry(DictGet(Records, t), item).overridden
                   \/ /\ getEntry(DictGet(Records, t), item).errors # <<>>
                      /\ Head(getEntry(DictGet(Records, t), item).errors)
                            = "exc"
                /\ \A o \in outputs :
                      o.path = OutputPath(u, item) => o.source = u

C20_Witness ==
    /\ pc = "persist"
    /\ BothClaim("pages", "theme", "p1")
    /\ getEntry(DictGet(Records, "theme"), "p1").overridden
    /\ getEntry(DictGet(Records, "theme"), "p1").errors = <<>>
    /\ getEntry(DictGet(Records, "pages"), "p1").errors = <<>>
    /\ Artifact("pages", "p1") \in outputs

\* C21: 'baker/is_baking' is true at every step of a running bake (jobs
\* queued, callbacks, finalize, persist), it is false whenever bake() has
\* returned a generation, and the step that sets it back to false comes
\* after the save of the records.
C21_IsBaking ==
    /\ [](/\ pc # "idle" => is_baking
          /\ (inflight # <<>>) => is_baking
          /\ (pc = "idle" /\ result.kind = "returned") => ~is_baking)
    /\ [][(is_baking /\ ~is_baking') =>
            /\ CallCount("save") = 1
            /\ calls[Len(calls)] = "save"
            /\ files[0] = StoredFile(current_records)
            /\ result'.kind = "returned"
            /\ result'.records = current_records]_vars

C21_Witness ==
    /\ pc = "idle"
    /\ result.kind = "returned"
    /\ ~is_baking
    /\ files[0].gen = result.records
    /\ ~result.records.success
    /\ bakes = 2

\* the value of cur_pass when the job was handed to the pool in this group
DispatchedAt(j) ==
    {queue_log[k].at : k \in {n \in 1..Len(queue_log) :
                                /\ queue_log[n].job = j
                                /\ queue_log[n].group = group_no}}

\* C22: a callback finds cur_pass equal to the pass its job was dispatched
\* in - every job in flight was queued in the running group while cur_pass
\* had its present value, which is 0 for the jobs of createJobs and k in the
\* k-th iteration of the follow-up loop; so the callback of a pass-0 job
\* appends an entry and the callback of a follow-up job does not; cur_pass
\* is 0 again when a realm group starts.
C22_CurPassMatchesDispatch ==
    /\ [](/\ \A i \in 1..Len(inflight) :
                /\ DispatchedAt(inflight[i]) = {cur_pass}
                /\ inflight[i].pass = 0 <=> inflight[i] \in
                      {Job(s, it, 0) : s \in SourceNames, it \in ItemSpecs}
          /\ pc = "pass0" => cur_pass = 0
          /\ pc \in {"followup", "queue"} => cur_pass = followup_passes + 1
          /\ \A k \in 1..Len(queue_log) :
                queue_log[k].at = queue_log[k].job.pass)
    /\ [][/\ group_no' # group_no /\ pc' # "idle" => cur_pass' = 0
          /\ (pc \notin {"idle", "done"} /\ Len(inflight') < Len(inflight)) =>
                \E i \in 1..Len(inflight) :
                    /\ inflight' = RemoveAt(inflight, i)
                    /\ Len(EntriesOf(current_records',
                                     inflight[i].record_name))
                        = Len(EntriesOf(current_records,
                                        inflight[i].record_name))
                          + (IF DispatchedAt(inflight[i]) = {0}
                             THEN 1 ELSE 0)]_vars

C22_Witness ==
    /\ group_no = 2
    /\ cur_pass = 0
    /\ inflight # <<>>
    /\ \E k \in 1..Len(queue_log) :
          queue_log[k].group = 1 /\ queue_log[k].at = 2

\* C23: the lookups of the callbacks succeed - while a job is in flight,
\* next_pass_jobs has a list under the job's source name, and while a job of
\* a pass >= 1 is in flight, the job's record exists and holds an entry with
\* the job's item spec; no callback has ever missed a key or an entry.
C23_LookupsSucceed ==
    /\ \A i \in 1..Len(inflight) :
          /\ DictHas(next_pass_jobs, inflight[i].source_name)
          /\ inflight[i].pass >= 1 =>
                /\ DictHas(Records, inflight[i].record_name)
                /\ HasEntry(DictGet(Records, inflight[i].record_name),
                            inflight[i].item)
    /\ ~lookup_failed

C23_Witness ==
    /\ cur_pass = 2
    /\ pc = "queue"
    /\ \E i \in 1..Len(inflight) : inflight[i].source_name = "pages"
    /\ DictHas(next_pass_jobs, "pages")
    /\ ~DictHas(next_pass_jobs, "assets")
    /\ DictHas(local_jobs, "assets")

\* ---------------------------------------------------------------- C24
\* what came back for the job of an item of a source in a pass
OutcomesOf(s, item, p) ==
    {o \in outcomes : /\ o.job.source_name = s
                      /\ o.job.item = item
                      /\ o.job.pass = p}

\* the messages the outcomes of an item leave on its entry, pass after pass
RECURSIVE ErrorsFrom(_, _, _)
ErrorsFrom(s, item, p) ==
    IF OutcomesOf(s, item, p) = {} THEN <<>>
    ELSE LET o == CHOOSE x \in OutcomesOf(s, item, p) : TRUE
         IN  (IF o.kind = "ok" THEN <<>> ELSE <<o.kind>>)
                 \o ErrorsFrom(s, item, p + 1)

\* the entries a record holds, as a function of the set of outcomes alone
EntriesFromOutcomes(s) ==
    {[item_spec |-> o.job.item,
      errors |-> ErrorsFrom(s, o.job.item, 0),
      overridden |-> FALSE] :
        o \in {x \in outcomes : x.job.record_name = s /\ x.job.pass = 0}}

\* the follow-up jobs and the pass each is dispatched in, as a function of
\* the set of outcomes alone
FollowUpsFromOutcomes ==
    {[job |-> [o.job EXCEPT !.pass = o.job.pass + 1],
      at |-> o.job.pass + 1] : o \in {x \in outcomes : x.next}}

\* the follow-up jobs dispatched, with the pass each was dispatched in
FollowUpsDispatched ==
    {[job |-> queue_log[k].job, at |-> queue_log[k].at] :
        k \in {n \in 1..Len(queue_log) : queue_log[n].at >= 1}}

\* C24: the generation a bake ends with is determined by the set of
\* (job, result) pairs alone, whatever the order the serialized callbacks
\* of a pass ran in: the generation's flag and each record's flag are true
\* exactly when no outcome (of that record) is a failure, each record holds
\* exactly one entry per item with the item's messages in pass order, and
\* the follow-up jobs dispatched in each later pass are exactly those the
\* outcomes of the pass before declared.  Two interleavings of the same
\* jobs and results have the same set of outcomes, hence the same flags,
\* the same set of entries per record and the same follow-up jobs per pass.
C24_OrderIndependence ==
    (observe /\ pc = "done") =>
        /\ \A o1, o2 \in outcomes : o1.job = o2.job => o1 = o2
        /\ current_records.success = (\A o \in outcomes : o.kind = "ok")
        /\ \A s \in SourceNames :
              LET mine == {o \in outcomes : o.job.record_name = s}
                  es   == EntriesOf(current_records, s)
              IN  /\ DictHas(Records, s) <=> mine # {}
                  /\ DictHas(Records, s) =>
                        DictGet(Records, s).success =
                            (\A o \in mine : o.kind = "ok")
                  /\ {es[n] : n \in 1..Len(es)} = EntriesFromOutcomes(s)
                  /\ Len(es) = Cardinality(EntriesFromOutcomes(s))
        /\ FollowUpsDispatched = FollowUpsFromOutcomes

\* a bake that ended with the entries of "pages" in the reverse of the order
\* their jobs were queued in, a successful job that declared a follow-up
\* job, and a follow-up job that failed in pass 1
C24_Witness ==
    /\ observe
    /\ pc = "done"
    /\ LET es == EntriesOf(current_records, "pages")
       IN  /\ Len(es) = 2
           /\ \E a, b \in 1..Len(queue_log) :
                 /\ a < b
                 /\ queue_log[a].at = 0 /\ queue_log[b].at = 0
                 /\ queue_log[a].job.item = es[2].item_spec
                 /\ queue_log[b].job.item = es[1].item_spec
                 /\ queue_log[a].job.source_name = "pages"
                 /\ queue_log[b].job.source_name = "pages"
    /\ \E o \in outcomes : o.job.pass = 1 /\ o.kind # "ok"
    /\ \E o \in outcomes : o.job.pass = 0 /\ o.kind = "ok" /\ o.next
    /\ ~current_records.success

\* ---------------------------------------------------------------- C25
\* C25: on one Baker instance, force never goes back from true to false; a
\* bake() that finds the cache invalid leaves force set; and every bake()
\* entered with force set skips loading the previous records, finds the
\* cache invalid again, hands force to the workers and ends with
\* incremental_count 0, even when the records it would have loaded are
\* valid and nothing changed since they were saved.
C25_ForceLatches ==
    /\ [][force => force']_vars
    /\ [][(pc = "validity" /\ ~is_cache_valid') => force']_vars
    /\ [][(force /\ pc = "idle" /\ pc' # "idle") =>
            /\ start_force'
            /\ ~loaded'
            /\ previous_records' = MultiRecord]_vars
    /\ [](start_force =>
            /\ ~loaded
            /\ pc \notin {"idle", "validity"} =>
                    /\ ~is_cache_valid
                    /\ current_records.incremental_count = 0
            /\ record_histories.created =>
                    record_histories.previous = MultiRecord
            /\ pool.created => pool.force
            /\ pc = "done" => files[0].gen.incremental_count = 0)

\* the second bake() of a Baker built without force, entered with force set
\* by the first one, about to return a full rebuild although the records the
\* first bake saved are readable, the configuration is valid and no template
\* is as recent as they are
C25_Witness ==
    /\ bakes = 2
    /\ pc = "done"
    /\ start_force
    /\ ~loaded
    /\ cache_valid
    /\ Len(saved) = 2
    /\ files[1].exists
    /\ ~files[1].corrupt
    /\ files[1].gen = saved[2]
    /\ ~saved[2].invalidated
    /\ LatestTemplateTime < saved[2].bake_time
    /\ files[0].gen.incremental_count = 0
====
